---- MODULE Spec2Model ----
(***************************************************************************)
(* A model of the sac13 crate's date/day-count conversion core:            *)
(* the bounded day-count scalars, Year, Month, YearOrdinal, the SAC13      *)
(* Date, the GregorianDate and the CalendarDate trait.                     *)
(*                                                                         *)
(* Values.  A scalar is its raw integer, a Year its u16 value, a Month its *)
(* repr(u8) discriminant, a YearOrdinal the record [year, day], a Date and *)
(* a GregorianDate the record [year, month, day].  Option<T> is a sequence *)
(* of length 0 (None) or 1 (Some(x)).  A Rust function that can panic      *)
(* (expect / unwrap / debug overflow) is modelled by two operators: F, the *)
(* value it computes, and F_panics, the condition under which it aborts.   *)
(***************************************************************************)
EXTENDS Integers, Sequences, FiniteSets, TLC

VARIABLES j, val, op, aborted, typ, arg, res, text

vars == <<j, val, op, aborted, typ, arg, res, text>>

\* the variables of a single call on a Year, a scalar or a year text
callvars == <<typ, arg, res, text>>

----------------------------------------------------------------------------
(* Option<T> and integer casts                                             *)

None == <<>>

Some(x) == <<x>>

IsSome(o) == Len(o) = 1

\* Rust's `%` on signed integers truncates toward zero.
rem(a, b) == IF a >= 0 THEN a % b ELSE -((-a) % b)

\* The ends of i32.
I32_MAX == 2147483647

I32_MIN == -I32_MAX - 1

\* a - b on i32 leaves the type's range
sub_overflows(a, b) ==
    \/ b > 0 /\ a < I32_MIN + b
    \/ b < 0 /\ a > I32_MAX + b

\* a - b on i32 in a build without overflow checks: the difference modulo
\* 2^32, computed without leaving the range
wrapping_sub(a, b) ==
    IF b > 0 /\ a < I32_MIN + b THEN (((a - I32_MIN) - b) + 1) + I32_MAX
    ELSE IF b < 0 /\ a > I32_MAX + b THEN (((a - I32_MAX) - b) - 1) + I32_MIN
    ELSE a - b

\* `as i16`, `as u8`, `as u16` truncating casts.
AsI16(v) == ((v + 32768) % 65536) - 32768

AsU8(v) == v % 256

AsU16(v) == v % 65536

----------------------------------------------------------------------------
(* scalars.rs: the scalar! and scalar_day! macros and their four uses      *)

UnixDay_MIN_INT == -4371872

JulianDay_MIN_INT == -1931284

CycleEpochDay_MIN_INT == 72683

Sac13Day_MIN_INT == 0

\* max: ($min + 9496300)
DAY_SPAN == 9496300

\* the literal of `const JULIAN_OFFSET: i32 = -1931284 - $min`
JULIAN_EPOCH == -1931284

ScalarTypes == {"UnixDay", "JulianDay", "CycleEpochDay", "Sac13Day"}

\* base: i32 for UnixDay and JulianDay, u32 for CycleEpochDay and Sac13Day
IsSigned(T) == T \in {"UnixDay", "JulianDay"}

MIN_INT(T) ==
    CASE T = "UnixDay" -> UnixDay_MIN_INT
      [] T = "JulianDay" -> JulianDay_MIN_INT
      [] T = "CycleEpochDay" -> CycleEpochDay_MIN_INT
      [] T = "Sac13Day" -> Sac13Day_MIN_INT

MAX_INT(T) == MIN_INT(T) + DAY_SPAN

JulianDay_MAX_INT == MAX_INT("JulianDay")

\* mutant: `>` for `>=` in the lower-bound test
scalar_new_mut(T, value) ==
    IF value > MIN_INT(T) /\ value <= MAX_INT(T) THEN Some(value) ELSE None

scalar_new(T, value) ==
    IF value >= MIN_INT(T) /\ value <= MAX_INT(T) THEN Some(value) ELSE None

\* mutant: `<=` for `<` in the upper-bound test
scalar_tomorrow_mut(T, raw) ==
    IF raw <= MAX_INT(T) THEN Some(raw + 1) ELSE None

scalar_tomorrow(T, raw) ==
    IF raw < MAX_INT(T) THEN Some(raw + 1) ELSE None

scalar_yesterday(T, raw) ==
    IF raw > MIN_INT(T) THEN Some(raw - 1) ELSE None

\* mutant: the offset with its operands swapped
JULIAN_OFFSET_mut(T) == MIN_INT(T) - JULIAN_EPOCH

JULIAN_OFFSET(T) == JULIAN_EPOCH - MIN_INT(T)

scalar_as_julian(T, raw) == raw + JULIAN_OFFSET(T)

\* `value - Self::JULIAN_OFFSET` overflows i32: a panic in a build with
\* overflow checks (the default of debug builds)
scalar_from_julian_panics(T, value) == sub_overflows(value, JULIAN_OFFSET(T))

\* `Self::new((value - Self::JULIAN_OFFSET) as $t)`, the subtraction wrapping
\* when it overflows.  For the u32 scalars a negative difference casts to a
\* value of at least 2^31, above every MAX_INT, so `new` answers None.
scalar_from_julian(T, value) ==
    LET diff == wrapping_sub(value, JULIAN_OFFSET(T))
    IN  IF ~IsSigned(T) /\ diff < 0 THEN None ELSE scalar_new(T, diff)

----------------------------------------------------------------------------
(* scalars.rs: Year                                                        *)

Year_MIN_INT == 0

Year_MAX_INT == 25999

\* mutant: `<` for `<=` in the upper-bound test
Year_new_mut(value) ==
    IF value >= Year_MIN_INT /\ value < Year_MAX_INT THEN Some(value) ELSE None

Year_new(value) ==
    IF value >= Year_MIN_INT /\ value <= Year_MAX_INT THEN Some(value) ELSE None

Year_next(y) == IF y < Year_MAX_INT THEN Some(y + 1) ELSE None

Year_previous(y) == IF y > Year_MIN_INT THEN Some(y - 1) ELSE None

\* mutant: the raw-year offset off by one
year_type_mut(y) == (((y + 200) % 293) % 33) % 4 = 1

\* mutant: the leap year is the first of every four, not the second
year_type_mut2(y) == (((y + 199) % 293) % 33) % 4 = 0

\* TRUE for YearType::Leap
year_type(y) == (((y + 199) % 293) % 33) % 4 = 1

is_leap(y) == year_type(y)

days(y) == IF year_type(y) THEN 366 ELSE 365



is_common(y) == ~year_type(y)

\* the decimal digits of n, as ASCII bytes
RECURSIVE dec(_)
dec(n) == IF n < 10 THEN <<48 + n>> ELSE Append(dec(n \div 10), 48 + (n % 10))

\* `{:03}`: zero-padded on the left to a width of at least three
RECURSIVE pad03(_)
pad03(s) == IF Len(s) >= 3 THEN s ELSE pad03(<<48>> \o s)

\* mutant: the millennium letter counted from 'B'
Year_fmt_mut(self) ==
    <<66 + AsU8(self \div 1000)>> \o pad03(dec(self % 1000))

\* Display for Year: the bytes written, 'A' being 65
Year_fmt(self) ==
    <<65 + AsU8(self \div 1000)>> \o pad03(dec(self % 1000))

\* parse_digits!: `return None` is the empty option
parse_digits(var, min, max) ==
    IF var < min \/ var > max THEN None ELSE Some(var - min)

Year_parse_year_digits(d0, d1, d2, d3) ==
    LET p0 == parse_digits(d0, 65, 90)
        p1 == parse_digits(d1, 48, 57)
        p2 == parse_digits(d2, 48, 57)
        p3 == parse_digits(d3, 48, 57)
    IN  IF p0 = None \/ p1 = None \/ p2 = None \/ p3 = None THEN None
        ELSE Year_new(p0[1] * 1000 + p1[1] * 100 + p2[1] * 10 + p3[1])

\* year is the sequence of the bytes of the &str
Year_try_from_str(year) ==
    IF Len(year) # 4 THEN None
    ELSE Year_parse_year_digits(year[1], year[2], year[3], year[4])

----------------------------------------------------------------------------
(* weekday.rs: Weekday, a repr(u8) enum; scalars.rs: JulianDay::weekday    *)

Monday == 0

Tuesday == 1

Wednesday == 2

Thursday == 3

Friday == 4

Saturday == 5

Sunday == 6

Weekdays == {Monday, Tuesday, Wednesday, Thursday, Friday, Saturday, Sunday}

\* i32::rem_euclid with a positive divisor: the non-negative remainder
rem_euclid(a, b) == a % b

\* the `_ => unreachable!()` arm of the match
JulianDay_weekday_panics(self) == rem_euclid(self, 7) \notin 0..6

\* mutant: the magnitude of the truncating remainder
JulianDay_weekday_mut(self) ==
    LET r == IF rem(self, 7) < 0 THEN -rem(self, 7) ELSE rem(self, 7)
    IN  <<Monday, Tuesday, Wednesday, Thursday, Friday, Saturday, Sunday>>[r + 1]

JulianDay_weekday(self) ==
    CASE rem_euclid(self, 7) = 0 -> Monday
      [] rem_euclid(self, 7) = 1 -> Tuesday
      [] rem_euclid(self, 7) = 2 -> Wednesday
      [] rem_euclid(self, 7) = 3 -> Thursday
      [] rem_euclid(self, 7) = 4 -> Friday
      [] rem_euclid(self, 7) = 5 -> Saturday
      [] rem_euclid(self, 7) = 6 -> Sunday

\* mutant: the week does not wrap, Sunday is followed by Sunday
Weekday_next_mut(self) ==
    <<Tuesday, Wednesday, Thursday, Friday, Saturday, Sunday, Sunday>>[self + 1]

\* Weekday::next
Weekday_next(self) ==
    CASE self = Monday -> Tuesday
      [] self = Tuesday -> Wednesday
      [] self = Wednesday -> Thursday
      [] self = Thursday -> Friday
      [] self = Friday -> Saturday
      [] self = Saturday -> Sunday
      [] self = Sunday -> Monday

\* Weekday::previous
Weekday_previous(self) ==
    CASE self = Monday -> Sunday
      [] self = Tuesday -> Monday
      [] self = Wednesday -> Tuesday
      [] self = Thursday -> Wednesday
      [] self = Friday -> Thursday
      [] self = Saturday -> Friday
      [] self = Sunday -> Saturday

----------------------------------------------------------------------------
(* month.rs: Month, a repr(u8) enum                                        *)

March == 1

April == 2

May == 3

June == 4

July == 5

August == 6

September == 7

October == 8

November == 9

December == 10

January == 11

February == 12

Addenduary == 13

Months == {March, April, May, June, July, August, September, October,
           November, December, January, February, Addenduary}

Month_new(m) == IF m \in Months THEN Some(m) ELSE None

Month_ord(m) == m

\* mutant: February is followed by March, Addenduary being skipped
Month_next_mut(m) ==
    <<April, May, June, July, August, September, October, November,
      December, January, February, March, March>>[m]

Month_next(m) ==
    <<April, May, June, July, August, September, October, November,
      December, January, February, Addenduary, March>>[m]

Month_previous(m) ==
    <<Addenduary, March, April, May, June, July, August, September,
      October, November, December, January, February>>[m]

----------------------------------------------------------------------------
(* date_sac13/raw_date.rs: YearOrdinal and the leap-cycle decomposition    *)

RAW_YEAR_OFFSET == 199

\* mutant: the lengths of leap and common years swapped
days_in_cycle_mut(leap, total) == leap * 365 + (total - leap) * 366

\* days_in_cycle!($leap, $total)
days_in_cycle(leap, total) == leap * 366 + (total - leap) * 365

\* to_years!: s is the pair of locals [y, d]
to_years(s, leap, total) ==
    LET f == s.d \div days_in_cycle(leap, total)
    IN  [d |-> s.d - f * days_in_cycle(leap, total), y |-> s.y + f * total]

\* mutant: the years after the leap year are not split off
to_years_rest_mut2(s) ==
    IF s.d >= 365
    THEN [y |-> s.y + 1, d |-> s.d - 365]
    ELSE s

\* mutant: `> 731` for `>= 731`
to_years_rest_mut(s) ==
    IF s.d > 731
    THEN [y |-> s.y + 2 + (s.d - 731) \div 365, d |-> (s.d - 731) % 365]
    ELSE IF s.d >= 365
         THEN [y |-> s.y + 1, d |-> s.d - 365]
         ELSE s

\* to_years_rest!: remaining years CLCCC
to_years_rest(s) ==
    IF s.d >= 731
    THEN [y |-> s.y + 2 + (s.d - 731) \div 365, d |-> (s.d - 731) % 365]
    ELSE IF s.d >= 365
         THEN [y |-> s.y + 1, d |-> s.d - 365]
         ELSE s


\* mutant: one day too many for every full cycle
to_days_mut(s, leap, total) ==
    LET f == s.y \div total
    IN  [d |-> s.d + f * (days_in_cycle(leap, total) + 1), y |-> s.y - f * total]

\* to_days!
to_days(s, leap, total) ==
    LET f == s.y \div total
    IN  [d |-> s.d + f * days_in_cycle(leap, total), y |-> s.y - f * total]

\* to_days_rest!: the year is intentionally left as it is
to_days_rest(s) ==
    [y |-> s.y, d |-> s.d + s.y * 365 + (IF s.y >= 2 THEN 1 ELSE 0)]

YearOrdinal_new(year, day) ==
    IF day >= days(year) THEN None ELSE Some([year |-> year, day |-> day])

\* the locals (y, d) of from_epoch_day after the four macro calls
from_epoch_day_raw(value) ==
    to_years_rest(
        to_years(to_years(to_years([y |-> 0, d |-> value], 71, 293), 8, 33), 1, 4))

\* `Year::new(y as u16 - RAW_YEAR_OFFSET).expect(..)`: the u16 subtraction
\* overflows (debug: panic; release: wraps to a value Year::new refuses) when
\* the raw year is below the offset, and expect panics when Year::new refuses.
YearOrdinal_from_epoch_day_panics(value) ==
    LET y16 == AsU16(from_epoch_day_raw(value).y)
    IN  \/ y16 < RAW_YEAR_OFFSET
        \/ Year_new(y16 - RAW_YEAR_OFFSET) = None

YearOrdinal_from_epoch_day(value) ==
    LET s == from_epoch_day_raw(value)
    IN  [year |-> AsU16(s.y) - RAW_YEAR_OFFSET, day |-> AsU16(s.d)]

\* mutant: the raw year offset is not added
epoch_day_raw_mut(yo) ==
    to_days_rest(
        to_days(to_days(to_days([y |-> yo.year, d |-> yo.day],
                                71, 293), 8, 33), 1, 4)).d

\* the local d of epoch_day after the four macro calls
epoch_day_raw(yo) ==
    to_days_rest(
        to_days(to_days(to_days([y |-> yo.year + RAW_YEAR_OFFSET, d |-> yo.day],
                                71, 293), 8, 33), 1, 4)).d

\* `CycleEpochDay::new(d).unwrap()`
YearOrdinal_epoch_day_panics(yo) ==
    scalar_new("CycleEpochDay", epoch_day_raw(yo)) = None

YearOrdinal_epoch_day(yo) == epoch_day_raw(yo)

YearOrdinal_MIN == [year |-> 0, day |-> 0]

\* mutant: day 365, which the common year Z999 does not have
YearOrdinal_MAX_mut == [year |-> 25999, day |-> 365]

YearOrdinal_MAX == [year |-> 25999, day |-> 364]

YearOrdinal_as_julian_panics(yo) == YearOrdinal_epoch_day_panics(yo)

YearOrdinal_as_julian(yo) ==
    scalar_as_julian("CycleEpochDay", YearOrdinal_epoch_day(yo))

YearOrdinal_from_julian_panics(value) ==
    LET c == scalar_from_julian("CycleEpochDay", value)
    IN  \/ scalar_from_julian_panics("CycleEpochDay", value)
        \/ IsSome(c) /\ YearOrdinal_from_epoch_day_panics(c[1])

YearOrdinal_from_julian(value) ==
    LET c == scalar_from_julian("CycleEpochDay", value)
    IN  IF IsSome(c) THEN Some(YearOrdinal_from_epoch_day(c[1])) ELSE None

----------------------------------------------------------------------------
(* date_sac13.rs and date_sac13/raw_date.rs: the SAC13 Date                *)

\* mutant: August has 29 days in every year
Date_month_len_mut(year, month) ==
    IF month = Addenduary \/ month = August THEN 29 ELSE 28

Date_month_len(year, month) ==
    IF month = Addenduary \/ (month = August /\ is_leap(year)) THEN 29 ELSE 28

Date_from_ymd(year, month, day) ==
    IF day = 0 \/ day > Date_month_len(year, month)
    THEN None
    ELSE Some([year |-> year, month |-> month, day |-> day])

Date_from_ymd_untyped(year, month, day) ==
    IF Year_new(year) = None THEN None
    ELSE IF Month_new(month) = None THEN None
    ELSE Date_from_ymd(year, month, day)

Date_MIN == [year |-> 0, month |-> March, day |-> 1]

Date_MAX == [year |-> 25999, month |-> Addenduary, day |-> 29]

\* mutant: `>=` for `>` in the test for the months after the leap day
date_to_yo_mut(value) ==
    LET day == (Month_ord(value.month) - 1) * 28 + value.day - 1
    IN  [year |-> value.year,
         day  |-> IF is_leap(value.year) /\ value.month >= August
                  THEN day + 1 ELSE day]

date_to_yo(value) ==
    LET day == (Month_ord(value.month) - 1) * 28 + value.day - 1
    IN  [year |-> value.year,
         day  |-> IF is_leap(value.year) /\ value.month > August
                  THEN day + 1 ELSE day]

\* the local `days` of yo_to_date after the leap-year adjustment
yo_to_date_days(value) ==
    IF is_leap(value.year) /\ value.day > 28 * 6 THEN value.day - 1 ELSE value.day

\* `Month::new(month).unwrap()`
yo_to_date_panics(value) ==
    LET dd == yo_to_date_days(value)
    IN  /\ ~(is_leap(value.year) /\ value.day = 28 * 6)
        /\ dd # 364
        /\ Month_new(AsU8((dd \div 28) + 1)) = None

yo_to_date(value) ==
    LET dd == yo_to_date_days(value)
    IN  IF is_leap(value.year) /\ value.day = 28 * 6
        THEN [year |-> value.year, month |-> August, day |-> 29]
        ELSE IF dd = 364
        THEN [year |-> value.year, month |-> Addenduary, day |-> 29]
        ELSE [year |-> value.year,
              month |-> AsU8((dd \div 28) + 1),
              day |-> AsU8((dd % 28) + 1)]

Date_as_julian_panics(d) == YearOrdinal_as_julian_panics(date_to_yo(d))

Date_as_julian(d) == YearOrdinal_as_julian(date_to_yo(d))

Date_from_julian_panics(value) ==
    LET o == YearOrdinal_from_julian(value)
    IN  \/ YearOrdinal_from_julian_panics(value)
        \/ IsSome(o) /\ yo_to_date_panics(o[1])

Date_from_julian(value) ==
    LET o == YearOrdinal_from_julian(value)
    IN  IF IsSome(o) THEN Some(yo_to_date(o[1])) ELSE None

\* mutant: the month length is taken to be 28 without asking month_len
Date_tomorrow_mut(self) ==
    IF self.day < 28 THEN Some([self EXCEPT !.day = @ + 1])
    ELSE LET month == Month_next(self.month)
         IN  IF month = March
             THEN IF Year_next(self.year) = None THEN None
                  ELSE Some([year |-> Year_next(self.year)[1],
                             month |-> month, day |-> 1])
             ELSE Some([year |-> self.year, month |-> month, day |-> 1])

Date_tomorrow(self) ==
    IF self.day < 28 THEN Some([self EXCEPT !.day = @ + 1])
    ELSE IF self.day < Date_month_len(self.year, self.month)
    THEN Some([self EXCEPT !.day = @ + 1])
    ELSE LET month == Month_next(self.month)
         IN  IF month = March
             THEN IF Year_next(self.year) = None THEN None
                  ELSE Some([year |-> Year_next(self.year)[1],
                             month |-> month, day |-> 1])
             ELSE Some([year |-> self.year, month |-> month, day |-> 1])

Date_yesterday(self) ==
    IF self.day > 1 THEN Some([self EXCEPT !.day = @ - 1])
    ELSE LET month == Month_previous(self.month)
         IN  IF month = Addenduary
             THEN IF Year_previous(self.year) = None THEN None
                  ELSE LET year == Year_previous(self.year)[1]
                       IN  Some([year |-> year, month |-> month,
                                 day |-> Date_month_len(year, month)])
             ELSE Some([year |-> self.year, month |-> month,
                        day |-> Date_month_len(self.year, month)])

----------------------------------------------------------------------------
(* date_gregorian.rs: GregorianDate                                        *)

GregorianDate_MIN == [year |-> -10000, month |-> 3, day |-> 22]

GregorianDate_MAX == [year |-> 16000, month |-> 3, day |-> 17]


\* mutant: every fourth year, without the century rule
GregorianDate_is_leap_year_mut2(year) == rem(year, 4) = 0

\* mutant: no exception for the years divisible by 400
GregorianDate_is_leap_year_mut(year) ==
    IF rem(year, 100) = 0 THEN FALSE ELSE rem(year, 4) = 0

GregorianDate_is_leap_year(year) ==
    IF rem(year, 400) = 0 THEN TRUE
    ELSE IF rem(year, 100) = 0 THEN FALSE
    ELSE rem(year, 4) = 0

DAYS_PER_MONTH == <<31, 28, 31, 30, 31, 30, 31, 31, 30, 31, 30, 31>>

GregorianDate_month_len(year, month) ==
    IF month = 0 \/ month > 12 THEN None
    ELSE Some(IF month = 2 /\ GregorianDate_is_leap_year(year)
              THEN 29 ELSE DAYS_PER_MONTH[month])

\* Ordering as "Less", "Equal", "Greater"
GregorianDate_const_cmp(lhs, rhs) ==
    IF lhs.year < rhs.year THEN "Less"
    ELSE IF lhs.year > rhs.year THEN "Greater"
    ELSE IF lhs.month < rhs.month THEN "Less"
    ELSE IF lhs.month > rhs.month THEN "Greater"
    ELSE IF lhs.day < rhs.day THEN "Less"
    ELSE IF lhs.day > rhs.day THEN "Greater"
    ELSE "Equal"

\* mutant: only the upper end of the domain is checked
GregorianDate_limit_sac13_mut(self) ==
    IF GregorianDate_const_cmp(self, GregorianDate_MAX) = "Greater"
    THEN None
    ELSE Some(self)

GregorianDate_limit_sac13(self) ==
    IF \/ GregorianDate_const_cmp(self, GregorianDate_MIN) = "Less"
       \/ GregorianDate_const_cmp(self, GregorianDate_MAX) = "Greater"
    THEN None
    ELSE Some(self)

\* `Self::month_len(year, month).unwrap()`, which `||` reaches only when the
\* month and day tests before it are false
GregorianDate_from_ymd_panics(year, month, day) ==
    /\ ~(month = 0 \/ month > 12 \/ day = 0)
    /\ GregorianDate_month_len(year, month) = None

\* `||` short-circuits, so month_len(..).unwrap() is reached with a month in 1..=12 only
GregorianDate_from_ymd(year, month, day) ==
    IF month = 0 \/ month > 12 \/ day = 0
    THEN None
    ELSE IF day > GregorianDate_month_len(year, month)[1]
    THEN None
    ELSE GregorianDate_limit_sac13([year |-> year, month |-> month, day |-> day])

\* truncating division, Rust's `/` on signed integers
quot(a, b) == IF a >= 0 THEN a \div b ELSE -((-a) \div b)

\* mutant: `/` for div_euclid
GregorianDate_as_julian_mut(self) ==
    LET D == self.day
        M == self.month
        Y == self.year
        h == M - 2
        g == Y + 4716 - quot(12 - h, 12)
        f == (h - 1 + 12) % 12
        e == quot(1461 * g + 0, 4) + D - 1 - 1401
        J == e + quot(153 * f + 2, 5)
    IN  J - quot(3 * quot(g + 184, 100), 4) - (-38)

\* E. G. Richards' algorithm; div_euclid and rem_euclid by a positive divisor
\* are \div and %.
GregorianDate_as_julian(self) ==
    LET D == self.day
        M == self.month
        Y == self.year
        h == M - 2
        g == Y + 4716 - ((12 - h) \div 12)
        f == (h - 1 + 12) % 12
        e == ((1461 * g + 0) \div 4) + D - 1 - 1401
        J == e + ((153 * f + 2) \div 5)
    IN  J - ((3 * ((g + 184) \div 100)) \div 4) - (-38)

\* mutant: the exclusive range MIN_INT..MAX_INT for MIN_INT..=MAX_INT
GregorianDate_from_julian_mut(value) ==
    IF ~(value >= JulianDay_MIN_INT /\ value < JulianDay_MAX_INT)
    THEN None
    ELSE LET J == value
             f0 == J + 1401
             f == f0 + ((((4 * J + 274277) \div 146097) * 3) \div 4) + (-38)
             e == 4 * f + 3
             g == (e % 1461) \div 4
             h == 5 * g + 2
             D == ((h % 153) \div 5) + 1
             M == (((h \div 153) + 2) % 12) + 1
             Y == (e \div 1461) - 4716 + ((12 + 2 - M) \div 12)
         IN  Some([year |-> AsI16(Y), month |-> AsU8(M), day |-> AsU8(D)])

GregorianDate_from_julian(value) ==
    IF ~(value >= JulianDay_MIN_INT /\ value <= JulianDay_MAX_INT)
    THEN None
    ELSE LET J == value
             f0 == J + 1401
             f == f0 + ((((4 * J + 274277) \div 146097) * 3) \div 4) + (-38)
             e == 4 * f + 3
             g == (e % 1461) \div 4
             h == 5 * g + 2
             D == ((h % 153) \div 5) + 1
             M == (((h \div 153) + 2) % 12) + 1
             Y == (e \div 1461) - 4716 + ((12 + 2 - M) \div 12)
         IN  Some([year |-> AsI16(Y), month |-> AsU8(M), day |-> AsU8(D)])

\* `self.year += 1` cannot overflow i16 for a month-12 date that passed limit_sac13
GregorianDate_tomorrow(self) ==
    IF self.day < 28 THEN Some([self EXCEPT !.day = @ + 1])
    ELSE IF GregorianDate_month_len(self.year, self.month) = None THEN None
    ELSE IF self.day < GregorianDate_month_len(self.year, self.month)[1]
    THEN Some([self EXCEPT !.day = @ + 1])
    ELSE LET month == IF self.month = 12 THEN 1 ELSE self.month + 1
             year == IF month = 1 THEN self.year + 1 ELSE self.year
         IN  GregorianDate_limit_sac13([year |-> year, month |-> month, day |-> 1])

\* mutant: the table's month length, February's leap day forgotten
GregorianDate_yesterday_mut(self) ==
    IF self.day > 1 THEN Some([self EXCEPT !.day = @ - 1])
    ELSE LET month == IF self.month = 1 THEN 12 ELSE self.month - 1
             year == IF month = 12 THEN self.year - 1 ELSE self.year
         IN  GregorianDate_limit_sac13(
                 [year |-> year, month |-> month, day |-> DAYS_PER_MONTH[month]])

GregorianDate_yesterday(self) ==
    IF self.day > 1 THEN Some([self EXCEPT !.day = @ - 1])
    ELSE LET month == IF self.month = 1 THEN 12 ELSE self.month - 1
             year == IF month = 12 THEN self.year - 1 ELSE self.year
         IN  IF GregorianDate_month_len(year, month) = None THEN None
             ELSE GregorianDate_limit_sac13(
                      [year |-> year, month |-> month,
                       day |-> GregorianDate_month_len(year, month)[1]])

----------------------------------------------------------------------------
(* #[derive(PartialOrd, Ord)]: fields are compared in their declared order  *)

\* Ord::cmp on integers, as "Less", "Equal", "Greater"
int_cmp(a, b) == IF a < b THEN "Less" ELSE IF a > b THEN "Greater" ELSE "Equal"

\* Ordering::then
Ordering_then(o, p) == IF o = "Equal" THEN p ELSE o

\* mutant: the day is compared before the month
Date_cmp_mut(a, b) ==
    Ordering_then(int_cmp(a.year, b.year),
        Ordering_then(int_cmp(a.day, b.day), int_cmp(a.month, b.month)))

\* derived for struct Date { year: Year, month: Month, day: u8 }; a Month
\* is compared by its discriminant
Date_cmp(a, b) ==
    Ordering_then(int_cmp(a.year, b.year),
        Ordering_then(int_cmp(a.month, b.month), int_cmp(a.day, b.day)))

\* derived for struct GregorianDate { year: i16, month: u8, day: u8 }
GregorianDate_cmp(a, b) ==
    Ordering_then(int_cmp(a.year, b.year),
        Ordering_then(int_cmp(a.month, b.month), int_cmp(a.day, b.day)))

\* derived for struct YearOrdinal { year: Year, day: u16 }
YearOrdinal_cmp(a, b) ==
    Ordering_then(int_cmp(a.year, b.year), int_cmp(a.day, b.day))

----------------------------------------------------------------------------
(* traits.rs: CalendarDate, dispatched on the implementing type            *)

Types == ScalarTypes \cup {"YearOrdinal", "Date", "GregorianDate"}

T_MIN(T) ==
    CASE T \in ScalarTypes -> MIN_INT(T)
      [] T = "YearOrdinal" -> YearOrdinal_MIN
      [] T = "Date" -> Date_MIN
      [] T = "GregorianDate" -> GregorianDate_MIN

T_MAX(T) ==
    CASE T \in ScalarTypes -> MAX_INT(T)
      [] T = "YearOrdinal" -> YearOrdinal_MAX
      [] T = "Date" -> Date_MAX
      [] T = "GregorianDate" -> GregorianDate_MAX

as_julian_panics(T, x) ==
    CASE T \in ScalarTypes -> FALSE
      [] T = "YearOrdinal" -> YearOrdinal_as_julian_panics(x)
      [] T = "Date" -> Date_as_julian_panics(x)
      [] T = "GregorianDate" -> FALSE

as_julian(T, x) ==
    CASE T \in ScalarTypes -> scalar_as_julian(T, x)
      [] T = "YearOrdinal" -> YearOrdinal_as_julian(x)
      [] T = "Date" -> Date_as_julian(x)
      [] T = "GregorianDate" -> GregorianDate_as_julian(x)

from_julian_panics(T, value) ==
    CASE T \in ScalarTypes -> scalar_from_julian_panics(T, value)
      [] T = "YearOrdinal" -> YearOrdinal_from_julian_panics(value)
      [] T = "Date" -> Date_from_julian_panics(value)
      [] T = "GregorianDate" -> FALSE

from_julian(T, value) ==
    CASE T \in ScalarTypes -> scalar_from_julian(T, value)
      [] T = "YearOrdinal" -> YearOrdinal_from_julian(value)
      [] T = "Date" -> Date_from_julian(value)
      [] T = "GregorianDate" -> GregorianDate_from_julian(value)

\* The scalars' inherent tomorrow/yesterday shadow the trait's defaults; Date
\* and GregorianDate override them; YearOrdinal uses the defaults.
tomorrow_panics(T, x) ==
    /\ T = "YearOrdinal"
    /\ \/ as_julian_panics(T, x)
       \/ from_julian_panics(T, as_julian(T, x) + 1)

tomorrow(T, x) ==
    CASE T \in ScalarTypes -> scalar_tomorrow(T, x)
      [] T = "YearOrdinal" -> from_julian(T, as_julian(T, x) + 1)
      [] T = "Date" -> Date_tomorrow(x)
      [] T = "GregorianDate" -> GregorianDate_tomorrow(x)

yesterday_panics(T, x) ==
    /\ T = "YearOrdinal"
    /\ \/ as_julian_panics(T, x)
       \/ from_julian_panics(T, as_julian(T, x) - 1)

yesterday(T, x) ==
    CASE T \in ScalarTypes -> scalar_yesterday(T, x)
      [] T = "YearOrdinal" -> from_julian(T, as_julian(T, x) - 1)
      [] T = "Date" -> Date_yesterday(x)
      [] T = "GregorianDate" -> GregorianDate_yesterday(x)

\* `T::from_julian(self.as_julian()).expect(..)`
convert_panics(S, x, T) ==
    \/ as_julian_panics(S, x)
    \/ from_julian_panics(T, as_julian(S, x))
    \/ from_julian(T, as_julian(S, x)) = None

convert(S, x, T) == from_julian(T, as_julian(S, x))

----------------------------------------------------------------------------
(* The state machine: a value is constructed in one representation, the    *)
(* other representations are derived from it by convert(), and all of them *)
(* are stepped day by day in lockstep, as misc/tests.rs does along the     *)
(* Julian Day Number axis.                                                 *)
(*   j        the Julian Day Number the run is at                          *)
(*   val[T]   the Option<T> held in representation T                       *)
(*   op       the operation that produced the state                        *)
(*   aborted  TRUE once a call has panicked                                *)
(* Besides, single calls of the scalar constructors and of the Year        *)
(* methods are made on their own, as the crate's unit tests make them:     *)
(*   typ      the type the call was made on                                *)
(*   arg      the argument of the call: an integer, or the tuple of the    *)
(*            call's integers                                              *)
(*   res      the Option the call returned                                 *)
(*   text     the bytes of the year text the call wrote or read            *)

\* Days of the Julian Day Number axis around which runs start.
Anchors ==
    << JulianDay_MIN_INT,   \* A000-01-01 = -10000-03-22
       JulianDay_MAX_INT,   \* Z999-13-29 = 16000-03-17
       0,                   \* sign change of the Julian Day Number
       -933807,             \* start of a 293-year cycle (cycle epoch day 10 * 107016)
       -933442,             \* 365 days into it: end of the cycle's first, common year
       -933076,             \* 731 days into it: end of the cycle's first leap year
       -897648,             \* start of a 33-year sub-cycle
       -894726,             \* start of a 4-year sub-cycle
       -837383,             \* start of the 29-year tail of a 293-year cycle
       1721060,             \* Gregorian 0000-01-01
       2305507,             \* Gregorian 1600-02-29
       2415080,             \* Gregorian 1900-03-01
       2451545,             \* Gregorian 2000-01-01
       2451624,             \* M000-01-01 = Gregorian 2000-03-20
       2460650,             \* Gregorian 2024-12-05
       2451792 >>           \* M000-06-29, a SAC13 leap day

\* Half-width, in days, of the window explored around each anchor.
Radius == 35

Window ==
    UNION {Anchors[i] - Radius .. Anchors[i] + Radius : i \in 1..Len(Anchors)}

InWindow(d) == d \in Window

\* Inputs of the constructors.
GregYears == {-32768, -10001, -10000, 1600, 1900, 2000, 2024, 16000, 16001, 32767}

SacYears == {0, 2732, 12000, 25999, 26000, 65535}

MaxMonthIn == 14

MaxDayIn == 32

MaxOrdinalIn == 367

NoValue == [T \in Types |-> None]

Only(S, o) == [T \in Types |-> IF T = S THEN o ELSE None]

Init ==
    /\ j = 0
    /\ val = NoValue
    /\ op = "start"
    /\ aborted = FALSE
    /\ typ = "Year"
    /\ arg = 0
    /\ res = None
    /\ text = <<>>

\* T::from_julian(d) for every representation T, at a day d of the axis
FromJulian(d) ==
    /\ op = "start"
    /\ j' = d
    /\ val' = [T \in Types |-> IF from_julian_panics(T, d) THEN None
                               ELSE from_julian(T, d)]
    /\ aborted' = \E T \in Types : from_julian_panics(T, d)
    /\ op' = "from_julian"
    /\ UNCHANGED callvars

\* GregorianDate::from_ymd(y, m, d)
GregFromYmd(y, m, d) ==
    /\ op = "start"
    /\ LET g == GregorianDate_from_ymd(y, m, d)
       IN  /\ val' = Only("GregorianDate", g)
           /\ j' = IF IsSome(g) THEN GregorianDate_as_julian(g[1]) ELSE j
    /\ aborted' = FALSE
    /\ op' = "greg_from_ymd"
    /\ UNCHANGED callvars

\* Date::from_ymd_untyped(y, m, d)
DateFromYmd(y, m, d) ==
    /\ op = "start"
    /\ LET s == Date_from_ymd_untyped(y, m, d)
       IN  /\ val' = Only("Date", s)
           /\ j' = IF IsSome(s) /\ ~Date_as_julian_panics(s[1])
                   THEN Date_as_julian(s[1]) ELSE j
           /\ aborted' = (IsSome(s) /\ Date_as_julian_panics(s[1]))
    /\ op' = "date_from_ymd"
    /\ UNCHANGED callvars

\* YearOrdinal::new(Year::new(y)?, d)
YearOrdinalNew(y, d) ==
    /\ op = "start"
    /\ LET o == IF Year_new(y) = None THEN None ELSE YearOrdinal_new(y, d)
       IN  /\ val' = Only("YearOrdinal", o)
           /\ j' = IF IsSome(o) /\ ~YearOrdinal_as_julian_panics(o[1])
                   THEN YearOrdinal_as_julian(o[1]) ELSE j
           /\ aborted' = (IsSome(o) /\ YearOrdinal_as_julian_panics(o[1]))
    /\ op' = "yo_new"
    /\ UNCHANGED callvars

HasValue == \E T \in Types : IsSome(val[T])

\* x.tomorrow() in every representation that holds a value
Tomorrow ==
    /\ ~aborted
    /\ HasValue
    /\ InWindow(j + 1)
    /\ j' = j + 1
    /\ val' = [T \in Types |->
                 IF IsSome(val[T]) /\ ~tomorrow_panics(T, val[T][1])
                 THEN tomorrow(T, val[T][1]) ELSE None]
    /\ aborted' = \E T \in Types : IsSome(val[T]) /\ tomorrow_panics(T, val[T][1])
    /\ op' = "tomorrow"
    /\ UNCHANGED callvars

\* x.yesterday() in every representation that holds a value
Yesterday ==
    /\ ~aborted
    /\ HasValue
    /\ InWindow(j - 1)
    /\ j' = j - 1
    /\ val' = [T \in Types |->
                 IF IsSome(val[T]) /\ ~yesterday_panics(T, val[T][1])
                 THEN yesterday(T, val[T][1]) ELSE None]
    /\ aborted' = \E T \in Types : IsSome(val[T]) /\ yesterday_panics(T, val[T][1])
    /\ op' = "yesterday"
    /\ UNCHANGED callvars

\* val[T] = val[S].convert::<T>() for every representation T, from a value
\* that was just constructed or stepped
Convert(S) ==
    /\ ~aborted
    /\ op # "convert"
    /\ IsSome(val[S])
    /\ j' = j
    /\ val' = [T \in Types |-> IF convert_panics(S, val[S][1], T) THEN None
                               ELSE convert(S, val[S][1], T)]
    /\ aborted' = \E T \in Types : convert_panics(S, val[S][1], T)
    /\ op' = "convert"
    /\ UNCHANGED callvars


\* Largest u16 handed to Year::new besides u16::MAX.
MaxYearIn == 26010

YearInputs == 0..MaxYearIn \cup {65535}

\* The bytes year texts are made of: '/', '0', '9', ':', '@', 'A', 'B', 'Z',
\* '[' and a byte that is not ASCII.
TextBytes == {47, 48, 57, 58, 64, 65, 66, 90, 91, 200}

\* Longest text handed to Year::try_from_str.
MaxTextLen == 4

\* Every text of up to MaxTextLen bytes, and "B000" and "Z999" with one more
\* byte before or after.
Texts ==
    UNION {[1..n -> TextBytes] : n \in 0..MaxTextLen}
    \cup {s \o <<b>> : s \in {<<66, 48, 48, 48>>, <<90, 57, 57, 57>>}, b \in TextBytes}
    \cup {<<b>> \o s : s \in {<<66, 48, 48, 48>>, <<90, 57, 57, 57>>}, b \in TextBytes}

\* the calls after which a Year is held and no text has been written or read
YearOps == {"year_new", "year_next", "year_previous"}

\* Year::new(v) for a u16 v
YearNew ==
    /\ op = "start"
    /\ \E v \in YearInputs :
          /\ arg' = v
          /\ res' = Year_new(v)
    /\ op' = "year_new"
    /\ UNCHANGED <<j, val, aborted, typ, text>>

\* y.next() on the Year held
YearNext ==
    /\ op \in YearOps
    /\ IsSome(res)
    /\ arg' = res[1]
    /\ res' = Year_next(res[1])
    /\ op' = "year_next"
    /\ UNCHANGED <<j, val, aborted, typ, text>>

\* y.previous() on the Year held
YearPrevious ==
    /\ op \in YearOps
    /\ IsSome(res)
    /\ arg' = res[1]
    /\ res' = Year_previous(res[1])
    /\ op' = "year_previous"
    /\ UNCHANGED <<j, val, aborted, typ, text>>

\* format!("{}", y) on the Year held
YearDisplay ==
    /\ op \in YearOps
    /\ IsSome(res)
    /\ arg' = res[1]
    /\ text' = Year_fmt(res[1])
    /\ op' = "year_display"
    /\ UNCHANGED <<j, val, aborted, typ, res>>

\* Year::try_from_str(s), s a given text or the text just displayed
YearTryFromStr ==
    /\ op \in {"start", "year_display"}
    /\ \E s \in (IF op = "start" THEN Texts ELSE {text}) :
          /\ text' = s
          /\ res' = Year_try_from_str(s)
    /\ op' = "year_try_from_str"
    /\ UNCHANGED <<j, val, aborted, typ, arg>>

Next ==
    \/ \E d \in Window : FromJulian(d)
    \/ \E y \in GregYears, m \in 0..MaxMonthIn, d \in 0..MaxDayIn : GregFromYmd(y, m, d)
    \/ \E y \in SacYears, m \in 0..MaxMonthIn, d \in 0..MaxDayIn : DateFromYmd(y, m, d)
    \/ \E y \in SacYears, d \in 0..MaxOrdinalIn : YearOrdinalNew(y, d)
    \/ Tomorrow
    \/ Yesterday
    \/ \E S \in Types : Convert(S)

Spec == Init /\ [][Next]_vars


\* Half-width of the cluster of integers taken around each edge.
RawRadius == 3

\* the integers within RawRadius of c
Near(c) == (c - RawRadius)..(c + RawRadius)

\* The raw values handed to T::new: around both ends of T's range, around 0,
\* and the ends of i32.  A u32 argument is never negative; the u32 values above
\* i32::MAX are left out.
RawInputs(T) ==
    LET all == Near(MIN_INT(T)) \cup Near(MAX_INT(T)) \cup Near(0)
               \cup {I32_MAX - d : d \in 0..RawRadius}
               \cup {I32_MIN + d : d \in 0..RawRadius}
    IN  IF IsSigned(T) THEN all ELSE {r \in all : r >= 0}

\* The i32 values handed to T::from_julian: around both ends of the domain,
\* around 0, the ends of i32, and the values at which `value - JULIAN_OFFSET`
\* starts to overflow.
JulianInputs(T) ==
    Near(JulianDay_MIN_INT) \cup Near(JulianDay_MAX_INT) \cup Near(0)
    \cup {I32_MAX - d : d \in 0..RawRadius}
    \cup {I32_MIN + d : d \in 0..RawRadius}
    \cup (IF JULIAN_OFFSET(T) > 0 THEN Near(I32_MIN + JULIAN_OFFSET(T))
          ELSE IF JULIAN_OFFSET(T) < 0 THEN Near(I32_MAX + JULIAN_OFFSET(T))
          ELSE {})

\* T::new(raw) for a scalar day type T
ScalarNew ==
    /\ op = "start"
    /\ \E T \in ScalarTypes :
          \E raw \in RawInputs(T) :
             /\ typ' = T
             /\ arg' = raw
             /\ res' = scalar_new(T, raw)
    /\ op' = "scalar_new"
    /\ UNCHANGED <<j, val, aborted, text>>

\* T::from_julian(value) for a scalar day type T, in a build with overflow
\* checks or in one without
ScalarFromJulian ==
    /\ op = "start"
    /\ \E T \in ScalarTypes :
          \E value \in JulianInputs(T) :
             \E checks \in BOOLEAN :
                /\ typ' = T
                /\ arg' = value
                /\ aborted' = (checks /\ scalar_from_julian_panics(T, value))
                /\ res' = IF aborted' THEN None ELSE scalar_from_julian(T, value)
    /\ op' = "scalar_from_julian"
    /\ UNCHANGED <<j, val, text>>

\* x.as_julian() on the scalar held
ScalarAsJulian ==
    /\ op \in {"scalar_new", "scalar_from_julian"}
    /\ IsSome(res)
    /\ arg' = res[1]
    /\ res' = Some(scalar_as_julian(typ, res[1]))
    /\ op' = "scalar_as_julian"
    /\ UNCHANGED <<j, val, aborted, typ, text>>


\* Largest u8 handed to Month::new besides u8::MAX.
MaxMonthOrdIn == 16

MonthInputs == 0..MaxMonthOrdIn \cup {255}

MonthOps == {"month_new", "month_next", "month_previous"}

\* Month::new(m) for a u8 m
MonthNew ==
    /\ op = "start"
    /\ \E m \in MonthInputs :
          /\ arg' = m
          /\ res' = Month_new(m)
    /\ typ' = "Month"
    /\ op' = "month_new"
    /\ UNCHANGED <<j, val, aborted, text>>

\* m.next() on the Month held
MonthNext ==
    /\ op \in MonthOps
    /\ IsSome(res)
    /\ arg' = Month_ord(res[1])
    /\ res' = Some(Month_next(res[1]))
    /\ op' = "month_next"
    /\ UNCHANGED <<j, val, aborted, typ, text>>

\* m.previous() on the Month held
MonthPrevious ==
    /\ op \in MonthOps
    /\ IsSome(res)
    /\ arg' = Month_ord(res[1])
    /\ res' = Some(Month_previous(res[1]))
    /\ op' = "month_previous"
    /\ UNCHANGED <<j, val, aborted, typ, text>>


\* The u16 years handed to Date::from_ymd_untyped: both ends of the Year
\* domain, common and leap years, the first refused year and u16::MAX.
DateYearInputs == {0, 11814, 11815, 12000, 12020, 25999, 26000, 65535}

\* Date::from_ymd_untyped(y, m, d) for a u16 y and u8 m and d
DateFromYmdUntyped ==
    /\ op = "start"
    /\ \E y \in DateYearInputs :
          \E m \in 0..MaxMonthIn \cup {255} :
             \E d \in 0..MaxDayIn \cup {255} :
                /\ arg' = <<y, m, d>>
                /\ res' = Date_from_ymd_untyped(y, m, d)
    /\ typ' = "Date"
    /\ op' = "date_from_ymd_untyped"
    /\ UNCHANGED <<j, val, aborted, text>>



----------------------------------------------------------------------------
(* parse.rs: texts are sequences of bytes                                  *)

I16_MAX == 32767
I16_MIN == -32768

\* i16::checked_mul and i16::checked_add
checked_mul(a, b) == IF a * b > I16_MAX \/ a * b < I16_MIN THEN None ELSE Some(a * b)
checked_add(a, b) == IF a + b > I16_MAX \/ a + b < I16_MIN THEN None ELSE Some(a + b)

\* the bytes of '-', '.', '/'
Minus == 45
Dot == 46
Slash == 47

\* [b'.', b'/', b'-'].contains(&x)
IsDelimiter(x) == x \in {Dot, Slash, Minus}

\* the loop of ComponentParse::parse from byte p of s on; i.next() is
\* None past the end of s. pos is the next byte the iterator will give.
RECURSIVE ComponentParse_loop(_, _, _, _, _, _)
ComponentParse_loop(s, p, invert, letter, value, char_cnt) ==
    LET x == IF p > Len(s) THEN None ELSE Some(s[p])
        exit == IF x = None THEN TRUE ELSE IsDelimiter(x[1])
        xv == IF x = None THEN 0 ELSE x[1]
    IN  IF exit
        THEN LET v == IF invert THEN checked_mul(value, -1) ELSE Some(value)
             IN  IF v = None
                 THEN None
                 ELSE Some([letter |-> letter, char_cnt |-> char_cnt,
                            value |-> v[1], end |-> xv,
                            pos |-> IF x = None THEN p ELSE p + 1])
        ELSE IF ~(xv >= 48 /\ xv <= 57)
        THEN None
        ELSE LET m == checked_mul(value, 10)
             IN  IF m = None
                 THEN None
                 ELSE LET a == checked_add(m[1], xv - 48)
                      IN  IF a = None
                          THEN None
                          ELSE ComponentParse_loop(s, p + 1, invert, letter,
                                                   a[1], char_cnt + 1)

\* ComponentParse::parse on the iterator standing before byte p of s
ComponentParse_parse(s, p) ==
    IF p > Len(s)
    THEN None
    ELSE LET invert == s[p] = Minus
             p1 == IF invert THEN p + 1 ELSE p
             c1 == IF invert THEN 1 ELSE 0
         IN  IF p1 > Len(s)
             THEN None
             ELSE IF s[p1] >= 65 /\ s[p1] <= 90
             THEN (IF invert
                   THEN None
                   ELSE ComponentParse_loop(s, p1 + 1, invert, TRUE,
                                            s[p1] - 65, c1 + 1))
             ELSE ComponentParse_loop(s, p1, invert, FALSE, 0, c1)

MIN_YEAR_LENGTH == 4

\* `c1.char_cnt == 3 || c2.char_cnt == 3 || c1.char_cnt == 3`
three_chars(c1, c2, c3) ==
    c1.char_cnt = 3 \/ c2.char_cnt = 3 \/ c1.char_cnt = 3

\* parse_date_str from the three components on
parse_components(c1, c2, c3) ==
    IF three_chars(c1, c2, c3)
    THEN None
    ELSE IF c1.end # c2.end
    THEN None
    ELSE IF c3.end # 0
    THEN None
    ELSE LET year_first == c1.char_cnt >= MIN_YEAR_LENGTH
             year_last == c3.char_cnt >= MIN_YEAR_LENGTH
         IN  IF c2.char_cnt >= MIN_YEAR_LENGTH
             THEN None
             ELSE IF year_first = year_last
             THEN None
             ELSE LET ymdo == IF year_first
                              THEN <<c1, c2, c3, "YMD">>
                              ELSE IF c1.end = Slash /\ ~c3.letter
                              THEN <<c3, c1, c2, "MDY">>
                              ELSE <<c3, c2, c1, "DMY">>
                      year == ymdo[1]
                      month == ymdo[2]
                      day == ymdo[3]
                      format == [separator |-> c1.end,
                                 component_order |-> ymdo[4],
                                 len_day |-> day.char_cnt,
                                 len_month |-> month.char_cnt,
                                 len_year |-> year.char_cnt]
                  IN  IF day.letter \/ month.letter
                      THEN None
                      ELSE IF ~(day.value >= 1 /\ day.value <= 31)
                              \/ ~(month.value >= 1 /\ month.value <= 13)
                      THEN None
                      ELSE IF year.letter
                      THEN (IF year.value < 0
                            THEN None
                            ELSE LET d == Date_from_ymd_untyped(AsU16(year.value),
                                              AsU8(month.value), AsU8(day.value))
                                 IN  IF d = None
                                     THEN None
                                     ELSE Some([date |-> <<"Sac13Date", d[1]>>,
                                                format |-> format]))
                      ELSE LET g == GregorianDate_from_ymd(year.value,
                                        AsU8(month.value), AsU8(day.value))
                           IN  IF g = None
                               THEN None
                               ELSE Some([date |-> <<"GregorianDate", g[1]>>,
                                          format |-> format])

\* parse_date_str(input)
parse_date_str(input) ==
    LET c1 == ComponentParse_parse(input, 1)
    IN  IF c1 = None
        THEN None
        ELSE LET c2 == ComponentParse_parse(input, c1[1].pos)
             IN  IF c2 = None
                 THEN None
                 ELSE LET c3 == ComponentParse_parse(input, c2[1].pos)
                      IN  IF c3 = None
                          THEN None
                          ELSE parse_components(c1[1], c2[1], c3[1])

\* The components the date texts are put together from: "1", "01", "001",
\* "13", "14", "32", "2000", "2020", "02000", "40000", "-2000", "L", "M003",
\* "M20" and "0L".
ComponentTexts ==
    { <<49>>, <<48, 49>>, <<48, 48, 49>>, <<49, 51>>, <<49, 52>>, <<51, 50>>,
      <<50, 48, 48, 48>>, <<50, 48, 50, 48>>, <<48, 50, 48, 48, 48>>,
      <<52, 48, 48, 48, 48>>, <<45, 50, 48, 48, 48>>, <<76>>,
      <<77, 48, 48, 51>>, <<77, 50, 48>>, <<48, 76>> }

Delimiters == {Minus, Dot, Slash}

\* what follows the third component: nothing or one more delimiter
Tails == {<<>>, <<Minus>>}

\* parse_date_str on three components with two delimiters between them
ParseDateStr ==
    /\ op = "start"
    /\ \E a \in ComponentTexts, b \in ComponentTexts, c \in ComponentTexts :
          \E s1 \in Delimiters, s2 \in Delimiters, t \in Tails :
             /\ arg' = <<a, b, c>>
             /\ text' = a \o <<s1>> \o b \o <<s2>> \o c \o t
             /\ res' = parse_date_str(text')
    /\ typ' = "ParsedDate"
    /\ op' = "parse_date_str"
    /\ UNCHANGED <<j, val, aborted>>

\* GregorianDate::from_ymd(y, m, d) for an i16 y and u8 m and d
GregorianFromYmd ==
    /\ op = "start"
    /\ \E y \in GregYears :
          \E m \in 0..MaxMonthIn \cup {255} :
             \E d \in 0..MaxDayIn \cup {255} :
                /\ arg' = <<y, m, d>>
                /\ aborted' = GregorianDate_from_ymd_panics(y, m, d)
                /\ res' = IF aborted' THEN None ELSE GregorianDate_from_ymd(y, m, d)
    /\ typ' = "GregorianDate"
    /\ op' = "gregorian_from_ymd"
    /\ UNCHANGED <<j, val, text>>


\* The i16 years handed to GregorianDate::month_len: every year within
\* LeapYearRadius of zero, so that negative and positive multiples of 4, 100
\* and 400 and the years around them occur, and both ends of i16.
LeapYearRadius == 401

LeapYearInputs ==
    (-LeapYearRadius..LeapYearRadius) \cup GregYears \cup {-32767, 32766}

\* GregorianDate::month_len(y, m) for an i16 y and a u8 m
GregorianMonthLen ==
    /\ op = "start"
    /\ \E y \in LeapYearInputs :
          \E m \in 0..MaxMonthIn \cup {255} :
             /\ arg' = <<y, m>>
             /\ res' = GregorianDate_month_len(y, m)
    /\ typ' = "GregorianDate"
    /\ op' = "gregorian_month_len"
    /\ UNCHANGED <<j, val, aborted, text>>

\* Single calls, as the crate's unit tests make them.
CallNext ==
    \/ YearNew
    \/ YearNext
    \/ YearPrevious
    \/ YearDisplay
    \/ YearTryFromStr
    \/ ScalarNew
    \/ ScalarFromJulian
    \/ ScalarAsJulian
    \/ MonthNew
    \/ MonthNext
    \/ MonthPrevious
    \/ DateFromYmdUntyped
    \/ GregorianFromYmd
    \/ ParseDateStr
    \/ GregorianMonthLen

CallSpec == Init /\ [][CallNext]_vars

----------------------------------------------------------------------------
(* Properties                                                              *)

InDomain(d) == d >= JulianDay_MIN_INT /\ d <= JulianDay_MAX_INT

\* C1: YearOrdinal::from_epoch_day and YearOrdinal::epoch_day are exact
\* inverses: every CycleEpochDay d the run holds satisfies
\* from_epoch_day(d).epoch_day() = d, and every YearOrdinal o it holds satisfies
\* from_epoch_day(o.epoch_day()) = o, neither call panicking.
C1_EpochDayRoundTrip ==
    /\ IsSome(val["CycleEpochDay"]) =>
         LET d == val["CycleEpochDay"][1]
         IN  /\ ~YearOrdinal_from_epoch_day_panics(d)
             /\ ~YearOrdinal_epoch_day_panics(YearOrdinal_from_epoch_day(d))
             /\ YearOrdinal_epoch_day(YearOrdinal_from_epoch_day(d)) = d
    /\ IsSome(val["YearOrdinal"]) =>
         LET o == val["YearOrdinal"][1]
         IN  /\ ~YearOrdinal_epoch_day_panics(o)
             /\ ~YearOrdinal_from_epoch_day_panics(YearOrdinal_epoch_day(o))
             /\ YearOrdinal_from_epoch_day(YearOrdinal_epoch_day(o)) = o

\* the last day (ordinal 365) of the leap year 2732, 730 days into a 293-year cycle
C1_Witness ==
    /\ op = "from_julian"
    /\ val["CycleEpochDay"] = Some(1070890)
    /\ val["YearOrdinal"] = Some([year |-> 2732, day |-> 365])

\* C2: for every j in [JulianDay::MIN_INT, JulianDay::MAX_INT],
\* Date::from_julian(j), GregorianDate::from_julian(j) and JulianDay::new(j)
\* return a value and nothing panics.
C2_FromJulianSucceeds ==
    (op = "from_julian" /\ InDomain(j)) =>
        /\ ~aborted
        /\ IsSome(val["Date"])
        /\ IsSome(val["GregorianDate"])
        /\ IsSome(val["JulianDay"])
        /\ scalar_new("JulianDay", j) = Some(j)

C2_Witness ==
    /\ op = "from_julian"
    /\ j = JulianDay_MAX_INT
    /\ val["Date"] = Some(Date_MAX)
    /\ val["GregorianDate"] = Some(GregorianDate_MAX)
    /\ val["JulianDay"] = Some(JulianDay_MAX_INT)

LockstepTypes == {"JulianDay", "Date", "GregorianDate"}

\* C3: for j and j+1 in the domain and X among JulianDay, Date, GregorianDate,
\* X::from_julian(j).tomorrow() = Some(X::from_julian(j+1)) and
\* X::from_julian(j+1).yesterday() = Some(X::from_julian(j)): a Tomorrow or
\* Yesterday step taken from the from_julian value of its day ends in the
\* from_julian value of the next or previous day.
C3_Lockstep ==
    [][\A X \in LockstepTypes :
          ( /\ op' \in {"tomorrow", "yesterday"}
            /\ InDomain(j) /\ InDomain(j')
            /\ IsSome(val[X])
            /\ val[X] = from_julian(X, j) )
          => ( /\ IsSome(val'[X])
               /\ val'[X] = from_julian(X, j') )]_vars

\* the step from L999-13-29 to M000-01-01, the SAC13 new year
C3_Witness ==
    /\ op = "tomorrow"
    /\ j = 2451624
    /\ val["JulianDay"] = Some(2451624)
    /\ val["Date"] = Some([year |-> 12000, month |-> March, day |-> 1])
    /\ val["GregorianDate"] = Some([year |-> 2000, month |-> 3, day |-> 20])

\* C4: GregorianDate::MAX.tomorrow() and GregorianDate::MIN.yesterday() return
\* None: the step past either end of the domain leaves no GregorianDate.
C4_GregorianBoundaryAbsent ==
    /\ (op = "tomorrow" /\ j = JulianDay_MAX_INT + 1) => val["GregorianDate"] = None
    /\ (op = "yesterday" /\ j = JulianDay_MIN_INT - 1) => val["GregorianDate"] = None

\* C5: every GregorianDate a run holds, however many tomorrow()/yesterday()
\* steps after from_ymd or from_julian, lies between GregorianDate::MIN and
\* GregorianDate::MAX and has its Julian Day Number in the domain.
C5_GregorianStaysInDomain ==
    IsSome(val["GregorianDate"]) =>
        LET g == val["GregorianDate"][1]
        IN  /\ GregorianDate_const_cmp(g, GregorianDate_MIN) # "Less"
            /\ GregorianDate_const_cmp(g, GregorianDate_MAX) # "Greater"
            /\ InDomain(GregorianDate_as_julian(g))

\* C6: for each of JulianDay, UnixDay, CycleEpochDay, Sac13Day and for Date,
\* tomorrow() is None exactly at MAX and yesterday() is None exactly at MIN,
\* and every other value has a tomorrow and a yesterday; a step past the end
\* of the domain leaves none of these representations with a value.
C6_BoundaryAbsent ==
    /\ \A T \in ScalarTypes \cup {"Date"} :
         IsSome(val[T]) =>
            /\ (tomorrow(T, val[T][1]) = None) <=> (val[T][1] = T_MAX(T))
            /\ (yesterday(T, val[T][1]) = None) <=> (val[T][1] = T_MIN(T))
    /\ ( \/ (op = "tomorrow" /\ j = JulianDay_MAX_INT + 1)
         \/ (op = "yesterday" /\ j = JulianDay_MIN_INT - 1) )
       => \A T \in ScalarTypes \cup {"Date"} : val[T] = None

\* the run has stepped onto the last day of the domain, Z999-13-29
C6_Witness ==
    /\ op = "tomorrow"
    /\ val["Date"] = Some(Date_MAX)
    /\ val["JulianDay"] = Some(JulianDay_MAX_INT)
    /\ val["UnixDay"] = Some(5124428)
    /\ val["CycleEpochDay"] = Some(9568983)
    /\ val["Sac13Day"] = Some(DAY_SPAN)

\* C7: convert::<T>() of a value whose Julian Day Number is in the domain
\* succeeds for every target T, and the result has the same Julian Day Number.
C7_ConvertSucceeds ==
    (op = "convert" /\ InDomain(j)) =>
        /\ ~aborted
        /\ \A T \in Types :
             /\ IsSome(val[T])
             /\ ~as_julian_panics(T, val[T][1])
             /\ as_julian(T, val[T][1]) = j

\* greg_from_sac13_works / sac13_from_greg_works
C7_Witness ==
    /\ op = "convert"
    /\ val["Date"] = Some([year |-> 12000, month |-> March, day |-> 1])
    /\ val["GregorianDate"] = Some([year |-> 2000, month |-> 3, day |-> 20])
    /\ val["UnixDay"] = Some(11036)

\* C8: GregorianDate::from_julian(j).as_julian() = j for every j in the domain,
\* and GregorianDate::from_julian(g.as_julian()) = Some(g) for every g that
\* from_ymd accepts.
C8_GregorianRoundTrip ==
    /\ (op = "from_julian" /\ InDomain(j)) =>
          /\ IsSome(val["GregorianDate"])
          /\ GregorianDate_as_julian(val["GregorianDate"][1]) = j
    /\ (op = "greg_from_ymd" /\ IsSome(val["GregorianDate"])) =>
          GregorianDate_from_julian(GregorianDate_as_julian(val["GregorianDate"][1]))
             = val["GregorianDate"]

\* from_ymd(2000, 2, 29), the leap day of a year divisible by 400
C8_Witness ==
    /\ op = "greg_from_ymd"
    /\ val["GregorianDate"] = Some([year |-> 2000, month |-> 2, day |-> 29])
    /\ j = 2451604

\* C9: yo_to_date(date_to_yo(d)) = d for every Date d and
\* date_to_yo(yo_to_date(o)) = o for every YearOrdinal o, yo_to_date not
\* panicking.
C9_DateYearOrdinalRoundTrip ==
    /\ IsSome(val["Date"]) =>
          /\ ~yo_to_date_panics(date_to_yo(val["Date"][1]))
          /\ yo_to_date(date_to_yo(val["Date"][1])) = val["Date"][1]
    /\ IsSome(val["YearOrdinal"]) =>
          /\ ~yo_to_date_panics(val["YearOrdinal"][1])
          /\ date_to_yo(yo_to_date(val["YearOrdinal"][1])) = val["YearOrdinal"][1]

\* the leap day of the leap year M000: day-of-year 168 and August 29
C9_Witness ==
    /\ val["Date"] = Some([year |-> 12000, month |-> August, day |-> 29])
    /\ val["YearOrdinal"] = Some([year |-> 12000, day |-> 168])

\* C10: for every value x of JulianDay, Date or GregorianDate, if
\* x.tomorrow() = Some(t) then t.yesterday() = Some(x), and if
\* x.yesterday() = Some(p) then p.tomorrow() = Some(x).
C10_TomorrowYesterdayInverse ==
    \A X \in LockstepTypes :
        IsSome(val[X]) =>
            LET x == val[X][1]
                t == tomorrow(X, x)
                p == yesterday(X, x)
            IN  /\ IsSome(t) => yesterday(X, t[1]) = Some(x)
                /\ IsSome(p) => tomorrow(X, p[1]) = Some(x)

\* Gregorian 1900-03-01, whose yesterday is February 28 of a common century year
C10_Witness ==
    /\ op = "tomorrow"
    /\ val["GregorianDate"] = Some([year |-> 1900, month |-> 3, day |-> 1])
    /\ val["JulianDay"] = Some(2415080)
    /\ IsSome(val["Date"])

\* the samples of gregorian_julian_day_number_conversion_works_with_samples
C11_Samples ==
    << [date |-> [year |-> 2024, month |-> 12, day |-> 5], jdn |-> 2460650],
       [date |-> [year |-> 2000, month |-> 1, day |-> 1], jdn |-> 2451545],
       [date |-> [year |-> 2000, month |-> 3, day |-> 20], jdn |-> 2451624],
       [date |-> [year |-> 1600, month |-> 2, day |-> 29], jdn |-> 2305507] >>

\* C11: the Gregorian dates 2024-12-05, 2000-01-01, 2000-03-20 and 1600-02-29
\* are the Julian Day Numbers 2460650, 2451545, 2451624 and 2305507: from_ymd
\* accepts each date, as_julian of the date is the number, from_julian of the
\* number is the date, and a run that constructs the date stands at the number
\* while a run that starts at the number holds the date.
C11_FixedPoints ==
    \A i \in 1..Len(C11_Samples) :
        LET g == C11_Samples[i].date
            n == C11_Samples[i].jdn
        IN  /\ GregorianDate_from_ymd(g.year, g.month, g.day) = Some(g)
            /\ GregorianDate_as_julian(g) = n
            /\ GregorianDate_from_julian(n) = Some(g)
            /\ (op = "greg_from_ymd" /\ val["GregorianDate"] = Some(g)) => j = n
            /\ (op = "from_julian" /\ j = n) => val["GregorianDate"] = Some(g)

\* from_ymd(1600, 2, 29), the leap day of a century year divisible by 400
C11_Witness ==
    /\ op = "greg_from_ymd"
    /\ val["GregorianDate"] = Some([year |-> 1600, month |-> 2, day |-> 29])
    /\ j = 2305507

\* the reference date in each representation
C12_Reference ==
    [ Date |-> [year |-> 12000, month |-> March, day |-> 1],
      GregorianDate |-> [year |-> 2000, month |-> 3, day |-> 20],
      JulianDay |-> 2451624,
      UnixDay |-> 11036 ]

\* C12: SAC13 M000-01-01 (Year 12000, March, day 1), Gregorian 2000-03-20,
\* Julian Day 2451624 and UnixDay 11036 are the same day: once a run holds
\* every representation (after from_julian or convert), holding the reference
\* value in one of the four means holding it in all four, and the weekday of
\* that JulianDay is Monday.
C12_ReferenceDate ==
    (op \in {"from_julian", "convert"} /\ ~aborted) =>
        \A S \in DOMAIN C12_Reference :
            val[S] = Some(C12_Reference[S]) =>
                /\ \A T \in DOMAIN C12_Reference : val[T] = Some(C12_Reference[T])
                /\ j = 2451624
                /\ ~JulianDay_weekday_panics(val["JulianDay"][1])
                /\ JulianDay_weekday(val["JulianDay"][1]) = Monday

\* date!(M000 - 01 - 01) converted to every representation
C12_Witness ==
    /\ op = "convert"
    /\ j = 2451624
    /\ val["Date"] = Some(C12_Reference["Date"])
    /\ val["GregorianDate"] = Some(C12_Reference["GregorianDate"])
    /\ val["JulianDay"] = Some(C12_Reference["JulianDay"])
    /\ val["UnixDay"] = Some(C12_Reference["UnixDay"])
    /\ JulianDay_weekday(val["JulianDay"][1]) = Monday

\* C13: for every Year y in [0, 25999], y.is_leap() holds exactly when
\* ((y.value() + 199) mod 293) mod 33 mod 4 = 1, y.is_common() is its negation
\* and y.days() is 366 for a leap year and 365 otherwise; L814 (11814) is
\* common and L815 (11815) is leap.
C13_LeapRule ==
    (op \in YearOps /\ IsSome(res)) =>
        LET y == res[1]
        IN  /\ is_leap(y) <=> ((((y + 199) % 293) % 33) % 4 = 1)
            /\ is_common(y) <=> ~is_leap(y)
            /\ days(y) = IF is_leap(y) THEN 366 ELSE 365
            /\ y = 11814 => (is_common(y) /\ days(y) = 365)
            /\ y = 11815 => (is_leap(y) /\ days(y) = 366)

\* year!(L815)
C13_Witness ==
    /\ op = "year_new"
    /\ arg = 11815
    /\ res = Some(11815)
    /\ is_leap(11815)
    /\ ~is_leap(11814)

\* the number of leap years among the n years from a on
C14_LeapsIn(a, n) == Cardinality({k \in a..(a + n - 1) : is_leap(k)})

\* the days from the first day of year y to the first day of the year after,
\* as YearOrdinal::epoch_day counts them
C14_MacroYearLength(y) ==
    epoch_day_raw([year |-> y + 1, day |-> 0]) - epoch_day_raw([year |-> y, day |-> 0])

\* C14: every 293 consecutive Years inside [0, 25999] hold exactly 71 leap
\* years; every full 33-year sub-cycle that starts where the raw cycle year
\* (value + 199) mod 293 is a multiple of 33 holds the 8 leap years that
\* to_years!(y, d, 8, 33) assumes, the 29-year tail of the grand cycle holds 7,
\* and every year is as long in the macros' day count as Year::days says.
C14_GrandCycle ==
    (op = "year_new" /\ IsSome(res)) =>
        LET y == res[1]
            c == (y + RAW_YEAR_OFFSET) % 293
        IN  /\ (y + 292 <= Year_MAX_INT) => C14_LeapsIn(y, 293) = 71
            /\ (c % 33 = 0 /\ c < 264 /\ y + 32 <= Year_MAX_INT)
                  => C14_LeapsIn(y, 33) = 8
            /\ (c = 264 /\ y + 28 <= Year_MAX_INT) => C14_LeapsIn(y, 29) = 7
            /\ C14_MacroYearLength(y) = days(y)

\* Year 94, whose raw year 293 opens a grand cycle
C14_Witness ==
    /\ op = "year_new"
    /\ res = Some(94)
    /\ (94 + RAW_YEAR_OFFSET) % 293 = 0
    /\ C14_LeapsIn(94, 293) = 71
    /\ C14_LeapsIn(94, 33) = 8

\* C19: Year::new(v) is a value exactly when 0 <= v <= 25999 and then holds v;
\* every Year y satisfies Year::new(y.value()) = Some(y); y.next() is None
\* exactly at 25999 and otherwise the Year value + 1; y.previous() is None
\* exactly at 0 and otherwise the Year value - 1.
C19_YearDomain ==
    /\ op = "year_new" =>
          /\ IsSome(res) <=> (0 <= arg /\ arg <= 25999)
          /\ IsSome(res) => res[1] = arg
    /\ (op \in YearOps /\ IsSome(res)) =>
          LET y == res[1]
          IN  /\ 0 <= y /\ y <= 25999
              /\ Year_new(y) = Some(y)
              /\ (Year_next(y) = None) <=> (y = 25999)
              /\ (y # 25999) => Year_next(y) = Some(y + 1)
              /\ (Year_previous(y) = None) <=> (y = 0)
              /\ (y # 0) => Year_previous(y) = Some(y - 1)
    /\ op = "year_next" => res = IF arg = 25999 THEN None ELSE Some(arg + 1)
    /\ op = "year_previous" => res = IF arg = 0 THEN None ELSE Some(arg - 1)

\* Z999.next()
C19_Witness ==
    /\ op = "year_next"
    /\ arg = 25999
    /\ res = None

\* C20: the display of a Year is the letter 'A' + value / 1000 followed by
\* value mod 1000 as three zero-padded digits, and try_from_str of the display
\* is the Year; try_from_str("B000") is the Year 1000 and 12024 displays as
\* "M024"; try_from_str is None for a text that is not 4 bytes long, whose
\* first byte is outside 'A'..'Z' or whose other bytes are not ASCII digits.
C20_YearText ==
    /\ op = "year_display" =>
          /\ text = << 65 + (arg \div 1000),
                       48 + ((arg % 1000) \div 100),
                       48 + (((arg % 1000) \div 10) % 10),
                       48 + (arg % 10) >>
          /\ Year_try_from_str(text) = Some(arg)
          /\ (arg = 12024) => text = <<77, 48, 50, 52>>
    /\ op = "year_try_from_str" =>
          /\ (text = Year_fmt(arg) /\ Year_new(arg) = Some(arg)) => res = Some(arg)
          /\ (text = <<66, 48, 48, 48>>) => res = Some(1000)
          /\ (Len(text) # 4) => res = None
          /\ (Len(text) = 4 /\ text[1] \notin 65..90) => res = None
          /\ (Len(text) = 4 /\ \E i \in 2..4 : text[i] \notin 48..57) => res = None

\* Year 12024 displayed as "M024" and read back
C20_Witness ==
    /\ op = "year_try_from_str"
    /\ arg = 12024
    /\ text = <<77, 48, 50, 52>>
    /\ res = Some(12024)

\* C16: each of JulianDay, UnixDay, CycleEpochDay and Sac13Day accepts exactly
\* the 9,496,301 values from MIN_INT to MAX_INT = MIN_INT + 9_496_300:
\* T::new(raw) is a value exactly when MIN_INT <= raw <= MAX_INT, its value()
\* is raw, and UnixDay::MAX.value() is 5124428.
C16_ScalarSpan ==
    /\ \A T \in ScalarTypes :
          /\ MAX_INT(T) = MIN_INT(T) + 9496300
          /\ T_MAX(T) = MAX_INT(T) /\ T_MIN(T) = MIN_INT(T)
    /\ T_MAX("UnixDay") = 5124428
    /\ op = "scalar_new" =>
          /\ IsSome(res) <=> (MIN_INT(typ) <= arg /\ arg <= MIN_INT(typ) + 9496300)
          /\ IsSome(res) => res[1] = arg

\* UnixDay::new(5124428), the last UnixDay
C16_Witness ==
    /\ op = "scalar_new"
    /\ typ = "UnixDay"
    /\ arg = 5124428
    /\ res = Some(5124428)

\* C17: T::from_julian(j) never overflows i32, whatever j: the call does not
\* abort, it returns the value with raw = j - (-1931284 - T::MIN_INT) when j is
\* a Julian Day Number of the domain and None otherwise; and as_julian() of a
\* value is raw + (-1931284 - T::MIN_INT).
C17_FromJulianNoOverflow ==
    /\ op = "scalar_from_julian" =>
          /\ ~aborted
          /\ IsSome(res) <=> InDomain(arg)
          /\ IsSome(res) => res[1] = arg - (-1931284 - MIN_INT(typ))
    /\ op = "scalar_as_julian" =>
          res = Some(arg + (-1931284 - MIN_INT(typ)))

\* the same day of the year 293 years later
C15_CycleLater(o) == [year |-> o.year + 293, day |-> o.day]

\* C15 as stated: the 293-year grand cycle by which from_epoch_day divides, and
\* which epoch_day adds per full cycle, is 107,165 days long.
C15_GrandCycleDaysAsStated ==
    /\ days_in_cycle(71, 293) = 107165
    /\ IsSome(val["YearOrdinal"]) =>
          LET o == val["YearOrdinal"][1]
          IN  epoch_day_raw(C15_CycleLater(o)) = epoch_day_raw(o) + 107165

\* C15, amended: the 293-year grand cycle by which from_epoch_day divides, and
\* which epoch_day adds per full cycle, is 107,016 days long, being 71 leap
\* years of 366 days plus 222 common years of 365 days: a YearOrdinal 293 years
\* later lies 107,016 days later, and the day 107,016 days later has the same
\* day of the year, 293 years later.
C15_GrandCycleDays ==
    /\ days_in_cycle(71, 293) = 107016
    /\ 71 * 366 + 222 * 365 = 107016
    /\ IsSome(val["YearOrdinal"]) =>
          LET o == val["YearOrdinal"][1]
              s == from_epoch_day_raw(epoch_day_raw(o))
          IN  /\ epoch_day_raw(C15_CycleLater(o)) = epoch_day_raw(o) + 107016
              /\ from_epoch_day_raw(epoch_day_raw(o) + 107016)
                    = [y |-> s.y + 293, d |-> s.d]

\* M000-01-01 as a YearOrdinal and as the CycleEpochDay 4455591
C15_Witness ==
    /\ op = "from_julian"
    /\ val["YearOrdinal"] = Some([year |-> 12000, day |-> 0])
    /\ val["CycleEpochDay"] = Some(4455591)
    /\ epoch_day_raw([year |-> 12293, day |-> 0]) = 4455591 + 107016

\* C18: JulianDay::weekday() is the non-negative remainder of the Julian Day
\* Number modulo 7, with 0 Monday, 1 Tuesday, ..., 6 Sunday, for negative
\* numbers too: the weekday's number lies in 0..6 and differs from the Julian
\* Day Number by a multiple of 7, the match never falls through, and Julian
\* Day Number 0 is a Monday.
C18_WeekdayEuclidean ==
    IsSome(val["JulianDay"]) =>
        LET d == val["JulianDay"][1]
            w == JulianDay_weekday(d)
        IN  /\ ~JulianDay_weekday_panics(d)
            /\ w \in Weekdays
            /\ 0 <= w /\ w <= 6
            /\ \E q \in {(d - w) \div 7} : d = 7 * q + w
            /\ (d = 0) => w = Monday
            /\ (d = -1) => w = Sunday
            /\ (d = 2451624) => w = Monday

\* Julian Day Number -1, a Sunday
C18_Witness ==
    /\ val["JulianDay"] = Some(-1)
    /\ JulianDay_weekday(-1) = Sunday
    /\ j = -1

\* m.next() applied n times
RECURSIVE C21_NextTimes(_, _)
C21_NextTimes(m, n) == IF n = 0 THEN m ELSE C21_NextTimes(Month_next(m), n - 1)

\* C21: Month::new(n) is a value exactly when 1 <= n <= 13, and
\* Month::new(m.ord()) = Some(m) for every Month m; next() and previous()
\* undo each other, move the ordinal by one except that Addenduary.next() is
\* March and March.previous() is Addenduary, and 13 applications of next()
\* lead back to m.
C21_MonthCycle ==
    /\ op = "month_new" =>
          /\ IsSome(res) <=> (1 <= arg /\ arg <= 13)
          /\ IsSome(res) => Month_ord(res[1]) = arg
    /\ (op \in MonthOps /\ IsSome(res)) =>
          LET m == res[1]
          IN  /\ Month_new(Month_ord(m)) = Some(m)
              /\ Month_previous(Month_next(m)) = m
              /\ Month_next(Month_previous(m)) = m
              /\ Month_ord(Month_next(m))
                    = IF m = Addenduary THEN Month_ord(March) ELSE Month_ord(m) + 1
              /\ Month_ord(Month_previous(m))
                    = IF m = March THEN Month_ord(Addenduary) ELSE Month_ord(m) - 1
              /\ C21_NextTimes(m, 13) = m
              /\ \A n \in 1..12 : C21_NextTimes(m, n) # m
    /\ op = "month_next" => res = Some(IF arg = 13 THEN 1 ELSE arg + 1)
    /\ op = "month_previous" => res = Some(IF arg = 1 THEN 13 ELSE arg - 1)

\* Addenduary.next()
C21_Witness ==
    /\ op = "month_next"
    /\ arg = Month_ord(Addenduary)
    /\ res = Some(March)

\* C22: Date::month_len is 29 for Addenduary, 29 for August in a leap Year and
\* 28 otherwise; Date::from_ymd(y, m, d) is a value exactly when
\* 1 <= d <= month_len(y, m); Date::from_ymd_untyped(y, m, d) is a value
\* exactly when Year::new(y) and Month::new(m) are values and the day is valid,
\* it then holds y, m and d, from_ymd_untyped(12020, 2, 29) is None, and no
\* input makes it abort.
C22_DateConstruction ==
    op = "date_from_ymd_untyped" =>
        LET y == arg[1]
            m == arg[2]
            d == arg[3]
            typed == 0 <= y /\ y <= 25999 /\ 1 <= m /\ m <= 13
            len == IF m = 13 THEN 29
                   ELSE IF m = 6 /\ is_leap(y) THEN 29
                   ELSE 28
        IN  /\ ~aborted
            /\ typed <=> (IsSome(Year_new(y)) /\ IsSome(Month_new(m)))
            /\ typed => /\ Date_month_len(y, m) = len
                        /\ IsSome(Date_from_ymd(y, m, d)) <=> (1 <= d /\ d <= len)
                        /\ res = Date_from_ymd(y, m, d)
            /\ IsSome(res) <=> (typed /\ 1 <= d /\ d <= len)
            /\ IsSome(res) => res[1] = [year |-> y, month |-> m, day |-> d]
            /\ (arg = <<12020, 2, 29>>) => res = None

\* August 29 of the leap year M000
C22_Witness ==
    /\ op = "date_from_ymd_untyped"
    /\ arg = <<12000, 6, 29>>
    /\ res = Some([year |-> 12000, month |-> August, day |-> 29])

\* C23: the MIN of every representation (Date A000-01-01, GregorianDate
\* -10000-03-22, CycleEpochDay 72683, Sac13Day 0, JulianDay, UnixDay and
\* YearOrdinal A000 day 0) has Julian Day Number -1931284, and the MAX of every
\* representation (Date Z999-13-29, GregorianDate 16000-03-17, YearOrdinal Z999
\* day 364 and the four scalar MAX values) has Julian Day Number 7565016; a
\* run that holds every representation of either day holds exactly these.
C23_BoundsSameDay ==
    /\ \A T \in Types :
          /\ ~as_julian_panics(T, T_MIN(T))
          /\ ~as_julian_panics(T, T_MAX(T))
          /\ as_julian(T, T_MIN(T)) = -1931284
          /\ as_julian(T, T_MAX(T)) = 7565016
    /\ Date_MIN = [year |-> 0, month |-> 1, day |-> 1]
    /\ Date_MAX = [year |-> 25999, month |-> 13, day |-> 29]
    /\ GregorianDate_MIN = [year |-> -10000, month |-> 3, day |-> 22]
    /\ GregorianDate_MAX = [year |-> 16000, month |-> 3, day |-> 17]
    /\ YearOrdinal_MIN = [year |-> 0, day |-> 0]
    /\ YearOrdinal_MAX = [year |-> 25999, day |-> 364]
    /\ T_MIN("CycleEpochDay") = 72683
    /\ T_MIN("Sac13Day") = 0
    /\ (op \in {"from_julian", "convert"} /\ ~aborted) =>
          /\ (j = -1931284) => \A T \in Types : val[T] = Some(T_MIN(T))
          /\ (j = 7565016) => \A T \in Types : val[T] = Some(T_MAX(T))

\* Date::MIN converted to every representation
C23_Witness ==
    /\ op = "convert"
    /\ j = JulianDay_MIN_INT
    /\ \A T \in Types : val[T] = Some(T_MIN(T))

\* the days of month m of the Gregorian year y, by the 4/100/400 rule
C24_Len(y, m) ==
    IF m = 2
    THEN (IF y % 400 = 0 \/ (y % 4 = 0 /\ y % 100 # 0) THEN 29 ELSE 28)
    ELSE IF m \in {4, 6, 9, 11} THEN 30 ELSE 31

\* y-m-d is not before -10000-03-22 and not after 16000-03-17
C24_InRange(y, m, d) ==
    /\ y > -10000 \/ (y = -10000 /\ (m > 3 \/ (m = 3 /\ d >= 22)))
    /\ y < 16000 \/ (y = 16000 /\ (m < 3 \/ (m = 3 /\ d <= 17)))

\* C24: GregorianDate::from_ymd(y, m, d) never aborts; it is None when m is
\* outside 1..=12, when d is outside 1..=month_len(y, m), February having 29
\* days only in Gregorian leap years, or when the date is before -10000-03-22
\* or after 16000-03-17; for every other input it is the date with these
\* components, and the date's Julian Day Number lies in the domain.
C24_GregorianFromYmd ==
    op = "gregorian_from_ymd" =>
        LET y == arg[1]
            m == arg[2]
            d == arg[3]
            exists == 1 <= m /\ m <= 12 /\ 1 <= d /\ d <= C24_Len(y, m)
        IN  /\ ~aborted
            /\ IsSome(res) <=> (exists /\ C24_InRange(y, m, d))
            /\ IsSome(res) =>
                  /\ res[1] = [year |-> y, month |-> m, day |-> d]
                  /\ InDomain(GregorianDate_as_julian(res[1]))

\* from_ymd(-10000, 3, 21), the day before GregorianDate::MIN
C24_Witness ==
    /\ op = "gregorian_from_ymd"
    /\ arg = <<-10000, 3, 21>>
    /\ res = None
    /\ GregorianDate_from_ymd(-10000, 3, 22) = Some(GregorianDate_MIN)

\* the component has a letter A..Z in it
C25_HasLetter(c) == \E i \in 1..Len(c) : c[i] >= 65 /\ c[i] <= 90

\* the component looks like a year: four characters or more
C25_YearLike(c) == Len(c) >= 4

\* C25: parse_date_str returns None for every input in which one of the
\* three components is exactly three characters long, for every input in
\* which both or neither of the end components looks like a year, and for
\* every input with a letter in the day or month position.
C25_Rejected ==
    op = "parse_date_str" =>
        LET a == arg[1]
            b == arg[2]
            c == arg[3]
        IN  (\/ Len(a) = 3 \/ Len(b) = 3 \/ Len(c) = 3
             \/ C25_YearLike(a) = C25_YearLike(c)
             \/ C25_YearLike(a) /\ (C25_HasLetter(b) \/ C25_HasLetter(c))
             \/ C25_YearLike(c) /\ (C25_HasLetter(a) \/ C25_HasLetter(b)))
            => res = None

\* y is divisible by 4 and, if divisible by 100, also by 400
C26_Leap(y) == y % 4 = 0 /\ (y % 100 # 0 \/ y % 400 = 0)

\* C26: GregorianDate::is_leap_year follows the 4/100/400 rule for every
\* i16 year, negative years and zero included; month_len(y, 2) is 29 exactly
\* in those years and 28 in the others; month_len is None exactly when the
\* month is outside 1..=12.
C26_GregorianLeap ==
    op = "gregorian_month_len" =>
        LET y == arg[1]
            m == arg[2]
        IN  /\ GregorianDate_is_leap_year(y) <=> C26_Leap(y)
            /\ res = None <=> ~(1 <= m /\ m <= 12)
            /\ m = 2 => res = Some(IF C26_Leap(y) THEN 29 ELSE 28)
            /\ (IsSome(res) /\ m # 2) => res = Some(DAYS_PER_MONTH[m])

\* February of the years -400 (leap), -100 (common) and 0 (leap) is asked for
C26_Witness ==
    /\ op = "gregorian_month_len"
    /\ arg = <<-400, 2>>
    /\ res = Some(29)
    /\ GregorianDate_month_len(-100, 2) = Some(28)
    /\ GregorianDate_month_len(0, 2) = Some(29)

\* the day of the year of the d-th day of month m, counted from 0, in a year
\* whose August has 29 days (leap) or 28
C27_Ordinal(leap, m, d) ==
    (m - 1) * 28 + (d - 1) + (IF leap /\ m > August THEN 1 ELSE 0)

\* C27: every YearOrdinal produced has day < year.days(): from_epoch_day
\* yields a day in 0..=364 in a common year and in 0..=365 in a leap year,
\* and date_to_yo yields (month.ord() - 1) * 28 + (day - 1), plus one exactly
\* when the year is leap and the month is after August, which is below
\* year.days() as well.
C27_OrdinalInYear ==
    /\ IsSome(val["CycleEpochDay"]) =>
          LET c == val["CycleEpochDay"][1]
              yo == YearOrdinal_from_epoch_day(c)
          IN  /\ ~YearOrdinal_from_epoch_day_panics(c)
              /\ yo.day >= 0
              /\ yo.day <= (IF is_leap(yo.year) THEN 365 ELSE 364)
              /\ yo.day < days(yo.year)
    /\ IsSome(val["YearOrdinal"]) =>
          val["YearOrdinal"][1].day < days(val["YearOrdinal"][1].year)
    /\ IsSome(val["Date"]) =>
          LET d == val["Date"][1]
              yo == date_to_yo(d)
          IN  /\ yo.year = d.year
              /\ yo.day = C27_Ordinal(is_leap(d.year), Month_ord(d.month), d.day)
              /\ yo.day < days(yo.year)

\* the last day of the leap year M000, Addenduary 29, is day 365 of the
\* year both from its cycle epoch day and from its date
C27_Witness ==
    /\ IsSome(val["CycleEpochDay"])
    /\ IsSome(val["Date"])
    /\ val["Date"][1] = [year |-> 12000, month |-> Addenduary, day |-> 29]
    /\ YearOrdinal_from_epoch_day(val["CycleEpochDay"][1]) = [year |-> 12000, day |-> 365]
    /\ date_to_yo(val["Date"][1]) = [year |-> 12000, day |-> 365]

\* C28: the raw year offset 199 puts cycle epoch day 72683 at day 0 of year
\* 0; for every CycleEpochDay of the domain [72683, 9568983] the raw year of
\* from_epoch_day lies in [199, 26198], so the u16 subtraction of the offset
\* does not underflow and expect never fails; epoch_day of every valid
\* YearOrdinal lies in [72683, 9568983], so its unwrap never fails.
C28_RawYearOffset ==
    /\ IsSome(val["CycleEpochDay"]) =>
          LET c == val["CycleEpochDay"][1]
              raw == from_epoch_day_raw(c)
          IN  /\ raw.y >= 199
              /\ raw.y <= 26198
              /\ Year_new(raw.y - 199) # None
              /\ ~YearOrdinal_from_epoch_day_panics(c)
              /\ c = 72683 => YearOrdinal_from_epoch_day(c) = [year |-> 0, day |-> 0]
    /\ IsSome(val["YearOrdinal"]) =>
          LET yo == val["YearOrdinal"][1]
          IN  /\ epoch_day_raw(yo) >= 72683
              /\ epoch_day_raw(yo) <= 9568983
              /\ ~YearOrdinal_epoch_day_panics(yo)
    /\ (val["CycleEpochDay"] = Some(72683) /\ op = "convert") =>
          val["YearOrdinal"] = Some([year |-> 0, day |-> 0])

\* CycleEpochDay 72683 has been converted, giving day 0 of year 0; the raw
\* years at the two ends of the domain are 199 and 26198
C28_Witness ==
    /\ op = "convert"
    /\ val["CycleEpochDay"] = Some(72683)
    /\ val["YearOrdinal"] = Some([year |-> 0, day |-> 0])
    /\ from_epoch_day_raw(72683).y = 199
    /\ from_epoch_day_raw(9568983).y = 26198
    /\ epoch_day_raw([year |-> 25999, day |-> 364]) = 9568983

\* the derived order of the calendar type T
C29_cmp(T, a, b) ==
    CASE T = "Date" -> Date_cmp(a, b)
      [] T = "GregorianDate" -> GregorianDate_cmp(a, b)
      [] T = "YearOrdinal" -> YearOrdinal_cmp(a, b)

\* The days the value held is compared with: the anchor days.
C29_Pivots == {Anchors[i] : i \in 1..Len(Anchors)}

\* C29: the derived, field-wise lexicographic order of Dates, GregorianDates
\* and YearOrdinals agrees with the chronological order: a < b exactly when
\* a.as_julian() < b.as_julian(), and a = b exactly when the Julian Day
\* Numbers are equal.
C29_OrderChronological ==
    \A T \in {"Date", "GregorianDate", "YearOrdinal"} :
        (IsSome(val[T]) /\ ~as_julian_panics(T, val[T][1])) =>
            \A k \in C29_Pivots :
                LET a == val[T][1]
                    b == from_julian(T, k)[1]
                IN  /\ C29_cmp(T, a, b) = int_cmp(as_julian(T, a), as_julian(T, b))
                    /\ C29_cmp(T, b, a) = int_cmp(as_julian(T, b), as_julian(T, a))
                    /\ (a = b) <=> (as_julian(T, a) = as_julian(T, b))

\* M000-07-01 is held and compared with the anchor day before it, the leap
\* day M000-06-29: the later date has the smaller day field
C29_Witness ==
    /\ val["Date"] = Some([year |-> 12000, month |-> September, day |-> 1])
    /\ 2451792 \in C29_Pivots
    /\ from_julian("Date", 2451792) = Some([year |-> 12000, month |-> August, day |-> 29])
    /\ Date_cmp(val["Date"][1], from_julian("Date", 2451792)[1]) = "Greater"
    /\ IsSome(val["GregorianDate"])
    /\ IsSome(val["YearOrdinal"])

\* w.next() applied n times
RECURSIVE C30_NextTimes(_, _)
C30_NextTimes(w, n) == IF n = 0 THEN w ELSE C30_NextTimes(Weekday_next(w), n - 1)

\* one step of the run, seen from the JulianDay held before and after it
C30_Step ==
    LET d == val["JulianDay"]
        t == val'["JulianDay"]
    IN  /\ (op' = "tomorrow" /\ IsSome(d) /\ scalar_tomorrow("JulianDay", d[1]) = t
               /\ IsSome(t)) =>
              JulianDay_weekday(t[1]) = Weekday_next(JulianDay_weekday(d[1]))
        /\ (op' = "yesterday" /\ IsSome(d) /\ scalar_yesterday("JulianDay", d[1]) = t
               /\ IsSome(t)) =>
              JulianDay_weekday(t[1]) = Weekday_previous(JulianDay_weekday(d[1]))
        /\ \A w \in Weekdays :
              /\ Weekday_previous(Weekday_next(w)) = w
              /\ Weekday_next(Weekday_previous(w)) = w
              /\ C30_NextTimes(w, 7) = w
              /\ \A n \in 1..6 : C30_NextTimes(w, n) # w

\* C30: weekdays advance in step with the days: when d.tomorrow() is Some(t),
\* t.weekday() is d.weekday().next(), and when d.yesterday() is Some(y),
\* y.weekday() is d.weekday().previous(), also across the sign change of the
\* Julian Day Number from -1 to 0; Weekday::next and Weekday::previous are
\* inverses of each other and come back to the same weekday after 7 steps
\* and not before.
C30_WeekdaysInStep == [][C30_Step]_vars

\* tomorrow() has stepped from Julian Day -1, a Sunday, to 0, a Monday
C30_Witness ==
    /\ op = "tomorrow"
    /\ val["JulianDay"] = Some(0)
    /\ scalar_tomorrow("JulianDay", -1) = Some(0)
    /\ JulianDay_weekday(-1) = Sunday
    /\ JulianDay_weekday(0) = Monday

====
